---- MODULE Spec2Model ----
(***************************************************************************)
(* Model of the McpNp tool server (src/src/mcpnp/mcpnp.py): the six tool   *)
(* handlers registered by McpNp._register_tools, the response envelope     *)
(* built by McpNp._json_response, and the constant / operator tables.      *)
(*                                                                         *)
(* One request is in flight at a time: Invoke_* puts a tool name and its   *)
(* argument bag in `request`, the handler action of that tool computes the *)
(* whole handler and stores what the caller observes in `response` (an     *)
(* envelope, or the exception that left the handler), Deliver hands it     *)
(* back and the server is idle again.                                      *)
(*                                                                         *)
(* Concurrent serves several callers at once: calls[c] is the invocation   *)
(* of caller c, and tables holds the two lookup tables of the process,     *)
(* which every invocation shares.                                          *)
(***************************************************************************)
EXTENDS Integers, Sequences, FiniteSets, TLC

VARIABLES phase, request, response, locals, calls, tables

vars == <<phase, request, response, locals, calls, tables>>

(***************************************************************************)
(* Bounds of the model.                                                    *)
(***************************************************************************)
\* longest argument list the caller passes
MaxLen == 2
\* callers that have an invocation in flight at the same time
MaxClients == 2
\* digits after the decimal point that float formatting expands at most
MaxDigits == 17

(***************************************************************************)
(* IEEE doubles, as far as the handlers can tell them apart.  A finite     *)
(* double is the exact rational sg * n / d (n >= 0, d > 0, lowest terms;   *)
(* n = 0 with sg = -1 is the negative zero); "nan" is the quiet NaN;       *)
(* "sqrt" is the positive irrational square root of n / d, which only      *)
(* numpy.std produces.  The values the model draws are small enough that   *)
(* every sum, difference, product and quotient is exact in binary64.       *)
(***************************************************************************)
Abs(i) == IF i < 0 THEN -i ELSE i

RECURSIVE Gcd(_, _)
Gcd(a, b) == IF b = 0 THEN a ELSE Gcd(b, a % b)

NaN == [k |-> "nan", sg |-> 1, n |-> 0, d |-> 1]

Fin(sg, n, d) ==
    LET g == Gcd(n, d)
    IN  [k |-> "fin", sg |-> sg, n |-> n \div g, d |-> d \div g]

PosZero == Fin(1, 0, 1)

IsNaN(x) == x.k = "nan"

\* x == 0 in Python / numpy: true of both zeros, false of NaN
IsZero(x) == x.k = "fin" /\ x.n = 0

FNeg(x) == IF x.k = "fin" THEN [x EXCEPT !.sg = -x.sg] ELSE x

FAdd(x, y) ==
    IF x.k # "fin" \/ y.k # "fin" THEN NaN
    ELSE LET num == x.sg * x.n * y.d + y.sg * y.n * x.d
         IN  IF num = 0
             THEN Fin(IF x.n = 0 /\ y.n = 0 /\ x.sg = -1 /\ y.sg = -1 THEN -1 ELSE 1, 0, 1)
             ELSE Fin(IF num < 0 THEN -1 ELSE 1, Abs(num), x.d * y.d)

FSub(x, y) == FAdd(x, FNeg(y))

FMul(x, y) ==
    IF x.k # "fin" \/ y.k # "fin" THEN NaN
    ELSE Fin(x.sg * y.sg, x.n * y.n, x.d * y.d)

\* Python's float / float for a divisor that is not zero
FDiv(x, y) ==
    IF x.k # "fin" \/ y.k # "fin" THEN NaN
    ELSE Fin(x.sg * y.sg, x.n * y.d, x.d * y.n)

IsSquare(i) == \E r \in 0..i : r * r = i

Root(i) == CHOOSE r \in 0..i : r * r = i

\* numpy.sqrt of a non-negative double
FSqrt(x) ==
    IF x.k # "fin" THEN NaN
    ELSE IF IsSquare(x.n) /\ IsSquare(x.d) THEN Fin(1, Root(x.n), Root(x.d))
    ELSE [k |-> "sqrt", sg |-> 1, n |-> x.n, d |-> x.d]

(***************************************************************************)
(* str(float) / repr(float): the shortest decimal that reads back as the   *)
(* same double, which for the exact values of the model is the finite      *)
(* decimal expansion, always with a fractional part.                       *)
(***************************************************************************)
RECURSIVE FracDigits(_, _, _)
FracDigits(r, d, left) ==
    IF r = 0 \/ left = 0 THEN ""
    ELSE ToString((r * 10) \div d) \o FracDigits((r * 10) % d, d, left - 1)

FloatStr(x) ==
    IF x.k = "nan" THEN "nan"
    ELSE IF x.k = "sqrt" THEN "sqrt(" \o ToString(x.n) \o "/" \o ToString(x.d) \o ")"
    ELSE (IF x.sg = -1 THEN "-" ELSE "")
         \o ToString(x.n \div x.d) \o "."
         \o (IF x.n % x.d = 0 THEN "0" ELSE FracDigits(x.n % x.d, x.d, MaxDigits))

(***************************************************************************)
(* Python values the caller passes.  An element of a list is a float or a  *)
(* string; an argument is a list of elements, or a bare element where a    *)
(* list is expected (shape "scalar", items of length one).                 *)
(***************************************************************************)
PyFloat(x) == [ty |-> "float", f |-> x, s |-> ""]

PyStr(s) == [ty |-> "str", f |-> PosZero, s |-> s]

PyList(items) == [shape |-> "list", items |-> items]

PyScalar(e) == [shape |-> "scalar", items |-> <<e>>]

\* repr() of an element: a float prints as a number, a string in quotes
PyRepr(e) == IF e.ty = "float" THEN FloatStr(e.f) ELSE "'" \o e.s \o "'"

RECURSIVE JoinRepr(_)
JoinRepr(items) ==
    IF items = <<>> THEN ""
    ELSE IF Len(items) = 1 THEN PyRepr(items[1])
    ELSE PyRepr(items[1]) \o ", " \o JoinRepr(Tail(items))

\* the elements joined, without the brackets of the list
PyListStr_join_only(items) == JoinRepr(items)

\* str() of a Python list
PyListStr(items) == "[" \o JoinRepr(items) \o "]"

(***************************************************************************)
(* What a step of a handler produces: a value, or a raised exception.      *)
(***************************************************************************)
Ok(v) == [exc |-> "", msg |-> "", val |-> v]

Raise(type, msg) == [exc |-> type, msg |-> msg, val |-> <<>>]

(***************************************************************************)
(* numpy.  An ndarray of dtype float is its number of dimensions and its   *)
(* flat data.  np.array(x, dtype=float) converts every element: a float is *)
(* kept, a string is parsed as a decimal literal ("nan" is one), and a     *)
(* string that is no literal raises ValueError.                            *)
(***************************************************************************)
ParseFloat(s) ==
    IF s = "2" THEN Ok(Fin(1, 2, 1))
    ELSE IF s = "nan" THEN Ok(NaN)
    ELSE Raise("ValueError", "could not convert string to float: '" \o s \o "'")

ElemToFloat(e) == IF e.ty = "float" THEN Ok(e.f) ELSE ParseFloat(e.s)

\* ConvertItems that leaves out the elements it cannot convert
RECURSIVE ConvertItems_skip(_, _)
ConvertItems_skip(items, acc) ==
    IF items = <<>> THEN Ok(acc)
    ELSE LET c == ElemToFloat(items[1])
         IN  IF c.exc # "" THEN ConvertItems_skip(Tail(items), acc)
             ELSE ConvertItems_skip(Tail(items), Append(acc, c.val))

RECURSIVE ConvertItems(_, _)
ConvertItems(items, acc) ==
    IF items = <<>> THEN Ok(acc)
    ELSE LET c == ElemToFloat(items[1])
         IN  IF c.exc # "" THEN c
             ELSE ConvertItems(Tail(items), Append(acc, c.val))

np_array(arg) ==
    LET c == ConvertItems(arg.items, <<>>)
    IN  IF c.exc # "" THEN c
        ELSE Ok([ndim |-> IF arg.shape = "list" THEN 1 ELSE 0, data |-> c.val])

\* Shape that tells arrays apart by their number of dimensions only
Shape_ndim_only(arr) == <<arr.ndim>>

\* arr.shape: () for a 0-d array, (n,) for a 1-d array
Shape(arr) == IF arr.ndim = 0 THEN <<>> ELSE <<Len(arr.data)>>

ShapeStr(arr) == IF arr.ndim = 0 THEN "()" ELSE "(" \o ToString(Len(arr.data)) \o ",)"

\* a binary ufunc (np.add, np.subtract, np.multiply): elementwise on equal
\* shapes; a 0-d array or an array of one element is broadcast over the
\* other; any other pair of shapes raises ValueError
Scalar(ufunc, x, y) ==
    IF ufunc = "add" THEN FAdd(x, y)
    ELSE IF ufunc = "subtract" THEN FSub(x, y)
    ELSE FMul(x, y)

Ufunc(ufunc, arr_a, arr_b) ==
    LET la == Len(arr_a.data)
        lb == Len(arr_b.data)
        n  == IF la = lb THEN la ELSE IF la = 1 THEN lb ELSE la
        at(data, i) == IF Len(data) = 1 THEN data[1] ELSE data[i]
    IN  IF la # lb /\ la # 1 /\ lb # 1
        THEN Raise("ValueError", "operands could not be broadcast together with shapes "
                                 \o ShapeStr(arr_a) \o " " \o ShapeStr(arr_b) \o " ")
        ELSE Ok([ndim |-> IF arr_a.ndim > arr_b.ndim THEN arr_a.ndim ELSE arr_b.ndim,
                 data |-> [i \in 1..n |-> Scalar(ufunc, at(arr_a.data, i), at(arr_b.data, i))]])

np_add(arr_a, arr_b) == Ufunc("add", arr_a, arr_b)

\* np.subtract with its operands swapped
np_subtract_swapped(arr_a, arr_b) == Ufunc("subtract", arr_b, arr_a)

np_subtract(arr_a, arr_b) == Ufunc("subtract", arr_a, arr_b)

np_multiply(arr_a, arr_b) == Ufunc("multiply", arr_a, arr_b)

RECURSIVE Fold(_, _)
Fold(data, acc) == IF data = <<>> THEN acc ELSE Fold(Tail(data), FAdd(acc, data[1]))

\* np.sum: 0.0 for an empty array, else the elements added left to right
np_sum(arr) == IF arr.data = <<>> THEN PosZero ELSE Fold(Tail(arr.data), arr.data[1])

\* np.std: population standard deviation; NaN (and a RuntimeWarning, which
\* is not an exception) for an empty array
np_std(arr) ==
    IF arr.data = <<>> THEN NaN
    ELSE LET cnt  == Fin(1, Len(arr.data), 1)
             mean == FDiv(np_sum(arr), cnt)
             dev  == [i \in 1..Len(arr.data) |->
                         LET x == FSub(arr.data[i], mean) IN FMul(x, x)]
             var  == FDiv(np_sum([ndim |-> 1, data |-> dev]), cnt)
         IN  FSqrt(var)

(***************************************************************************)
(* The enumerations and the constant table.                                *)
(***************************************************************************)
McpNpResponses ==
    [RESULT |-> "result", STATUS |-> "status", OK |-> "ok",
     ERROR |-> "error", MESSAGE |-> "message", NAN |-> "nan"]

McpNpOperator ==
    [ADD |-> "add", SUBTRACT |-> "subtract", DIVIDE |-> "divide", MULTIPLY |-> "multiply"]

McpNpConstant ==
    [PI |-> "PI", E |-> "E", SPEED_OF_LIGHT |-> "speed_of_light", PLANCK |-> "planck",
     ELEMENTARY_CHARGE |-> "elementary_charge",
     GRAVITATIONAL_CONSTANT |-> "gravitational_constant",
     ELECTRON_MASS |-> "electron_mass", PROTON_MASS |-> "proton_mass"]

\* the values are the library's doubles, named as the source names them
MCPNP_CONSTANT_VALUES ==
    (McpNpConstant.PI :> "np.pi") @@
    (McpNpConstant.E :> "np.e") @@
    (McpNpConstant.SPEED_OF_LIGHT :> "sc.speed_of_light") @@
    (McpNpConstant.PLANCK :> "sc.Planck") @@
    (McpNpConstant.ELEMENTARY_CHARGE :> "sc.elementary_charge") @@
    (McpNpConstant.GRAVITATIONAL_CONSTANT :> "sc.gravitational_constant") @@
    (McpNpConstant.ELECTRON_MASS :> "sc.electron_mass") @@
    (McpNpConstant.PROTON_MASS :> "sc.proton_mass")

\* McpNpOperator(operator): the member whose value is the string, else ValueError
OperatorByValue(operator) ==
    IF operator \in {McpNpOperator[m] : m \in DOMAIN McpNpOperator}
    THEN Ok(operator)
    ELSE Raise("ValueError", "'" \o operator \o "' is not a valid McpNpOperator")

(***************************************************************************)
(* McpNp._json_response: the one place the envelope is built.              *)
(***************************************************************************)
json_response(result_value, status, message) ==
    LET status_value == IF status THEN McpNpResponses.OK ELSE McpNpResponses.ERROR
    IN  (McpNpResponses.RESULT :> result_value) @@
        (McpNpResponses.STATUS :> status_value) @@
        (McpNpResponses.MESSAGE :> message)

\* what the caller of a handler observes
Returned(envelope) == [raised |-> "", exc_msg |-> "", envelope |-> envelope]

Escaped(type, msg) == [raised |-> type, exc_msg |-> msg, envelope |-> <<>>]

(***************************************************************************)
(* json.dumps, for the shapes the handlers encode: an object whose keys    *)
(* and values are given as already encoded text, flat (no indent) or with  *)
(* indent=2 at a nesting depth.  The strings the model encodes hold no     *)
(* character that json.dumps would escape.                                 *)
(***************************************************************************)
JsonStr(s) == "\"" \o s \o "\""

RECURSIVE JoinWith(_, _)
JoinWith(parts, sep) ==
    IF parts = <<>> THEN ""
    ELSE IF Len(parts) = 1 THEN parts[1]
    ELSE parts[1] \o sep \o JoinWith(Tail(parts), sep)

Member(pair) == JsonStr(pair[1]) \o ": " \o pair[2]

JsonObject(pairs) ==
    "{" \o JoinWith([i \in 1..Len(pairs) |-> Member(pairs[i])], ", ") \o "}"

Pad(depth) == IF depth = 0 THEN "" ELSE IF depth = 1 THEN "  " ELSE "    "

JsonObjectIndent(pairs, depth) ==
    "{\n"
    \o JoinWith([i \in 1..Len(pairs) |-> Pad(depth + 1) \o Member(pairs[i])], ",\n")
    \o "\n" \o Pad(depth) \o "}"

\* float(value) as json.dumps writes it: the repr of the library's double
JsonLibraryFloat(value) == "float(" \o value \o ")"

(***************************************************************************)
(* stddev (mcpnp_stddev).  np.std raises for no list of numbers: an empty  *)
(* list gives NaN with a warning, so only np.array can reach the except.   *)
(***************************************************************************)
mcpnp_stddev(numbers) ==
    LET arr == np_array(numbers)
    IN  IF arr.exc # ""
        THEN Returned(json_response(McpNpResponses.NAN, FALSE,
                                    "McpNp stddev failed with error: " \o arr.msg))
        ELSE LET result == np_std(arr.val)
             IN  Returned(json_response(FloatStr(result), TRUE, "McpNp stddev successful"))

\* mcpnp_constant with a lookup that ignores letter case
mcpnp_constant_caseless(name) ==
    LET fold(nm) ==
            IF nm \in {"pi", "PI"} THEN "PI"
            ELSE IF nm \in {"e", "E"} THEN "E"
            ELSE IF nm = "SPEED_OF_LIGHT" THEN "speed_of_light"
            ELSE IF nm = "PLANCK" THEN "planck"
            ELSE IF nm = "ELEMENTARY_CHARGE" THEN "elementary_charge"
            ELSE IF nm = "GRAVITATIONAL_CONSTANT" THEN "gravitational_constant"
            ELSE IF nm = "ELECTRON_MASS" THEN "electron_mass"
            ELSE IF nm = "PROTON_MASS" THEN "proton_mass"
            ELSE nm
        key == fold(name)
    IN  IF key \notin DOMAIN MCPNP_CONSTANT_VALUES
        THEN Returned(json_response("", FALSE, "Constant '" \o name \o "' is not supported."))
        ELSE Returned(json_response(
                 JsonObjectIndent(<<<<"name", JsonStr(name)>>,
                                    <<"value", JsonLibraryFloat(MCPNP_CONSTANT_VALUES[key])>>>>, 0),
                 TRUE, "Constant '" \o name \o "' returned."))

(***************************************************************************)
(* constant (mcpnp_constant).                                              *)
(***************************************************************************)
mcpnp_constant_in(table, name) ==
    IF name \notin DOMAIN table
    THEN Returned(json_response("", FALSE, "Constant '" \o name \o "' is not supported."))
    ELSE LET value  == table[name]
             result == <<<<"name", JsonStr(name)>>, <<"value", JsonLibraryFloat(value)>>>>
         IN  Returned(json_response(JsonObjectIndent(result, 0), TRUE,
                                    "Constant '" \o name \o "' returned."))

mcpnp_constant(name) == mcpnp_constant_in(MCPNP_CONSTANT_VALUES, name)

(***************************************************************************)
(* results_explanation (mcpnp_results_explanation).                        *)
(***************************************************************************)
mcpnp_results_explanation ==
    LET json_structure ==
            << <<McpNpResponses.RESULT,
                 JsonStr("The main result value, e.g., a number, list, or error string.")>>,
               <<McpNpResponses.STATUS,
                 JsonStr("Indicates if the operation was successful ('ok') or failed ('error').")>>,
               <<McpNpResponses.MESSAGE,
                 JsonStr("A human-readable message describing the result or error.")>> >>
        response_strings ==
            << <<McpNpResponses.RESULT, JsonStr("Key for the result value.")>>,
               <<McpNpResponses.STATUS, JsonStr("Key for the status of the operation.")>>,
               <<McpNpResponses.OK, JsonStr("Indicates success.")>>,
               <<McpNpResponses.ERROR, JsonStr("Indicates failure.")>>,
               <<McpNpResponses.MESSAGE, JsonStr("Key for the message field.")>> >>
        explanation ==
            << <<"json_structure", JsonObjectIndent(json_structure, 1)>>,
               <<"response_strings", JsonObjectIndent(response_strings, 1)>> >>
    IN  Returned(json_response(JsonObjectIndent(explanation, 0), TRUE,
            "Explanation of MCPNP result JSON structure and response strings."))

(***************************************************************************)
(* elementwise_operators (mcpnp_list_operators).                           *)
(***************************************************************************)
mcpnp_list_operators ==
    LET operator_info ==
            << <<McpNpOperator.ADD,
                 JsonStr("Elementwise addition of two lists of real numbers.")>>,
               <<McpNpOperator.SUBTRACT,
                 JsonStr("Elementwise subtraction of two lists of real numbers.")>>,
               <<McpNpOperator.MULTIPLY,
                 JsonStr("Elementwise multiplication of two lists of real numbers.")>>,
               <<McpNpOperator.DIVIDE,
                 JsonStr("Elementwise division of two lists of real numbers (division by zero returns NaN).")>> >>
    IN  Returned(json_response(JsonObject(operator_info), TRUE, "Supported operators listed."))

\* mcpnp_sum that rejects the empty list
mcpnp_sum_empty_error(numbers) ==
    LET arr == np_array(numbers)
    IN  IF arr.exc # "" \/ arr.val.data = <<>>
        THEN Returned(json_response("", FALSE, "McpNp sum failed with error: empty"))
        ELSE Returned(json_response(FloatStr(np_sum(arr.val)), TRUE, "McpNp sum successful"))

(***************************************************************************)
(* sum (mcpnp_sum).                                                        *)
(***************************************************************************)
mcpnp_sum(numbers) ==
    LET arr == np_array(numbers)
    IN  IF arr.exc # ""
        THEN Returned(json_response("", FALSE, "McpNp sum failed with error: " \o arr.msg))
        ELSE LET result == np_sum(arr.val)
             IN  Returned(json_response(FloatStr(result), TRUE, "McpNp sum successful"))

(***************************************************************************)
(* elementwise (mcpnp_elementwise_op).  A run is what the caller observes  *)
(* (resp) and the handler's local variables when it ended: computed is     *)
(* TRUE once the try block has been left without an exception.             *)
(***************************************************************************)
NoLocals ==
    [computed |-> FALSE, error_detected |-> FALSE, error_message |-> "", result_list |-> <<>>]

\* the except clause with a message that leaves the exception out
ElementwiseFailed_generic(msg) ==
    [resp   |-> Returned(json_response("", FALSE, "McpNp elementwise_op failed")),
     locals |-> NoLocals]

\* the handler's except clause (lines 187-194)
ElementwiseFailed(msg) ==
    [resp   |-> Returned(json_response("", FALSE,
                    "McpNp elementwise_op failed with error: " \o msg)),
     locals |-> NoLocals]

\* the divide branch's loop over enumerate(zip(arr_a, arr_b)).  b == 0 is
\* tested before the division, so float(a) / float(b) never raises and the
\* inner except clause (lines 179-182) is never entered.
RECURSIVE DivideLoop(_, _, _, _)
DivideLoop(arr_a, arr_b, idx, st) ==
    IF idx >= Len(arr_a.data) \/ idx >= Len(arr_b.data) THEN st
    ELSE LET a == arr_a.data[idx + 1]
             b == arr_b.data[idx + 1]
         IN  IF IsZero(b)
             THEN DivideLoop(arr_a, arr_b, idx + 1,
                      [result         |-> Append(st.result, NaN),
                       error_detected |-> TRUE,
                       error_message  |-> "Division by zero at index " \o ToString(idx) \o ". "])
             ELSE DivideLoop(arr_a, arr_b, idx + 1,
                      [st EXCEPT !.result = Append(st.result, FDiv(a, b))])

\* lines 159-185: the operator's branch; result is an ndarray
Compute(op, arr_a, arr_b) ==
    LET clean(r) ==
            IF r.exc # "" THEN r
            ELSE Ok([result |-> r.val, error_detected |-> FALSE, error_message |-> ""])
    IN  IF op = McpNpOperator.ADD THEN clean(np_add(arr_a, arr_b))
        ELSE IF op = McpNpOperator.SUBTRACT THEN clean(np_subtract(arr_a, arr_b))
        ELSE IF op = McpNpOperator.MULTIPLY THEN clean(np_multiply(arr_a, arr_b))
        ELSE IF op = McpNpOperator.DIVIDE
        THEN IF arr_a.ndim = 0 \/ arr_b.ndim = 0
             THEN Raise("TypeError", "iteration over a 0-d array")
             ELSE LET st == DivideLoop(arr_a, arr_b, 0,
                                [result |-> <<>>, error_detected |-> FALSE,
                                 error_message |-> ""])
                  IN  Ok([st EXCEPT !.result = [ndim |-> 1, data |-> st.result]])
        ELSE Raise("ValueError", "Unsupported operator: " \o op)

\* ResultList with the substitution of the sentinel forgotten
ResultList_keep_nan(data) == [i \in 1..Len(data) |-> PyFloat(data[i])]

\* line 196: every NaN of the result becomes the sentinel string
ResultList(data) ==
    [i \in 1..Len(data) |->
        IF ~IsNaN(data[i]) THEN PyFloat(data[i]) ELSE PyStr(McpNpResponses.NAN)]

HasSentinel(result_list) ==
    \E i \in 1..Len(result_list) : result_list[i] = PyStr(McpNpResponses.NAN)

\* Assemble that decides the status by the error flag alone
Assemble_flag_only(c) ==
    LET result_list == ResultList(c.result.data)
        loc == [computed |-> TRUE, error_detected |-> c.error_detected,
                error_message |-> c.error_message, result_list |-> result_list]
    IN  IF c.error_detected
        THEN [resp |-> Returned(json_response(PyListStr(result_list), FALSE,
                          "McpNp elementwise_op failed: " \o c.error_message)),
              locals |-> loc]
        ELSE [resp |-> Returned(json_response(PyListStr(result_list), TRUE,
                          "McpNp elementwise_op successful")),
              locals |-> loc]

\* lines 195-207, after the try block: nothing here is caught
Assemble(c) ==
    IF c.result.ndim = 0
    THEN [resp   |-> Escaped("TypeError", "'numpy.float64' object is not iterable"),
          locals |-> [computed |-> TRUE, error_detected |-> c.error_detected,
                      error_message |-> c.error_message, result_list |-> <<>>]]
    ELSE LET result_list == ResultList(c.result.data)
             loc == [computed |-> TRUE, error_detected |-> c.error_detected,
                     error_message |-> c.error_message, result_list |-> result_list]
         IN  IF c.error_detected \/ HasSentinel(result_list)
             THEN [resp |-> Returned(json_response(PyListStr(result_list), FALSE,
                               "McpNp elementwise_op failed: "
                               \o (IF c.error_message # "" THEN c.error_message
                                   ELSE "One or more results are NaN."))),
                   locals |-> loc]
             ELSE [resp |-> Returned(json_response(PyListStr(result_list), TRUE,
                               "McpNp elementwise_op successful")),
                   locals |-> loc]

\* the handler with the operator looked up before the lists are converted
mcpnp_elementwise_op_operator_first(list_a, list_b, operator) ==
    LET arr_a == np_array(list_a)
        arr_b == np_array(list_b)
        op    == OperatorByValue(operator)
    IN  IF op.exc # "" THEN ElementwiseFailed(op.msg)
        ELSE IF arr_a.exc # "" THEN ElementwiseFailed(arr_a.msg)
        ELSE IF arr_b.exc # "" THEN ElementwiseFailed(arr_b.msg)
        ELSE IF Shape(arr_a.val) # Shape(arr_b.val)
        THEN ElementwiseFailed("Input lists must be of equal length.")
        ELSE LET c == Compute(op.val, arr_a.val, arr_b.val)
             IN  IF c.exc # "" THEN ElementwiseFailed(c.msg)
                 ELSE Assemble(c.val)

mcpnp_elementwise_op(list_a, list_b, operator) ==
    LET arr_a == np_array(list_a)
        arr_b == np_array(list_b)
        op    == OperatorByValue(operator)
    IN  IF arr_a.exc # "" THEN ElementwiseFailed(arr_a.msg)
        ELSE IF arr_b.exc # "" THEN ElementwiseFailed(arr_b.msg)
        ELSE IF Shape(arr_a.val) # Shape(arr_b.val)
        THEN ElementwiseFailed("Input lists must be of equal length.")
        ELSE IF op.exc # "" THEN ElementwiseFailed(op.msg)
        ELSE LET c == Compute(op.val, arr_a.val, arr_b.val)
             IN  IF c.exc # "" THEN ElementwiseFailed(c.msg)
                 ELSE Assemble(c.val)

(***************************************************************************)
(* The argument values the model draws.                                    *)
(***************************************************************************)
FloatInputs == {Fin(1, 0, 1), Fin(1, 2, 1), Fin(-1, 1, 1), NaN}

StrInputs == {"a", "2"}

Elements == {PyFloat(x) : x \in FloatInputs} \cup {PyStr(s) : s \in StrInputs}

ListsOf(S) == UNION {[1..k -> S] : k \in 0..MaxLen}

\* a list, or a bare number or string where the list is expected
Arguments == {PyList(l) : l \in ListsOf(Elements)} \cup {PyScalar(e) : e \in Elements}

Operators == {McpNpOperator[m] : m \in DOMAIN McpNpOperator} \cup {"invalid_op", "ADD"}

\* the names as the tool's description and the specification spell them
DocumentedNames ==
    {"PI", "E", "SPEED_OF_LIGHT", "PLANCK", "ELEMENTARY_CHARGE",
     "GRAVITATIONAL_CONSTANT", "ELECTRON_MASS", "PROTON_MASS"}

Names == DOMAIN MCPNP_CONSTANT_VALUES \cup DocumentedNames \cup {"pi", "e", "NOT_A_CONSTANT", ""}

Tools == {"sum", "stddev", "constant", "elementwise", "elementwise_operators",
          "results_explanation"}

NoArg == PyList(<<>>)

NoRequest ==
    [tool |-> "", numbers |-> NoArg, list_a |-> NoArg, list_b |-> NoArg,
     operator |-> "", name |-> ""]

NoResponse == [raised |-> "", exc_msg |-> "", envelope |-> <<>>]

(***************************************************************************)
(* The server: a request arrives, its handler runs to completion, the      *)
(* response is delivered.                                                  *)
(***************************************************************************)
\* an invocation slot of a caller, with nothing in flight
IdleCall == [phase |-> "idle", request |-> NoRequest, response |-> NoResponse]

Clients == 1..MaxClients

\* the class attribute MCPNP_CONSTANT_VALUES and the enum McpNpOperator
InitialTables == [constants |-> MCPNP_CONSTANT_VALUES, operators |-> McpNpOperator]

Init ==
    /\ phase = "idle"
    /\ request = NoRequest
    /\ response = NoResponse
    /\ locals = NoLocals
    /\ calls = [c \in Clients |-> IdleCall]
    /\ tables = InitialTables

Arrive(req) ==
    /\ phase' = "called"
    /\ request' = req
    /\ UNCHANGED <<response, locals, calls, tables>>

Invoke_sum ==
    /\ phase = "idle"
    /\ \E numbers \in Arguments :
          Arrive([NoRequest EXCEPT !.tool = "sum", !.numbers = numbers])

Invoke_stddev ==
    /\ phase = "idle"
    /\ \E numbers \in Arguments :
          Arrive([NoRequest EXCEPT !.tool = "stddev", !.numbers = numbers])

Invoke_constant ==
    /\ phase = "idle"
    /\ \E name \in Names :
          Arrive([NoRequest EXCEPT !.tool = "constant", !.name = name])

Invoke_elementwise ==
    /\ phase = "idle"
    /\ \E list_a \in Arguments, list_b \in Arguments, operator \in Operators :
          Arrive([NoRequest EXCEPT !.tool = "elementwise", !.list_a = list_a,
                                   !.list_b = list_b, !.operator = operator])

Invoke_elementwise_operators ==
    /\ phase = "idle"
    /\ Arrive([NoRequest EXCEPT !.tool = "elementwise_operators"])

Invoke_results_explanation ==
    /\ phase = "idle"
    /\ Arrive([NoRequest EXCEPT !.tool = "results_explanation"])

Handle(tool, resp, loc) ==
    /\ phase = "called"
    /\ request.tool = tool
    /\ phase' = "returned"
    /\ response' = resp
    /\ locals' = loc
    /\ UNCHANGED <<request, calls, tables>>

Run_sum == Handle("sum", mcpnp_sum(request.numbers), NoLocals)

Run_stddev == Handle("stddev", mcpnp_stddev(request.numbers), NoLocals)

Run_constant == Handle("constant", mcpnp_constant(request.name), NoLocals)

Run_elementwise ==
    LET run == mcpnp_elementwise_op(request.list_a, request.list_b, request.operator)
    IN  Handle("elementwise", run.resp, run.locals)

Run_elementwise_operators == Handle("elementwise_operators", mcpnp_list_operators, NoLocals)

Run_results_explanation == Handle("results_explanation", mcpnp_results_explanation, NoLocals)

Deliver ==
    /\ phase = "returned"
    /\ phase' = "idle"
    /\ request' = NoRequest
    /\ response' = NoResponse
    /\ locals' = NoLocals
    /\ UNCHANGED <<calls, tables>>

Next ==
    \/ Invoke_sum
    \/ Invoke_stddev
    \/ Invoke_constant
    \/ Invoke_elementwise
    \/ Invoke_elementwise_operators
    \/ Invoke_results_explanation
    \/ Run_sum
    \/ Run_stddev
    \/ Run_constant
    \/ Run_elementwise
    \/ Run_elementwise_operators
    \/ Run_results_explanation
    \/ Deliver

Spec == Init /\ [][Next]_vars

(***************************************************************************)
(* Several callers at once.  A handler is a coroutine without an await, so *)
(* it runs from its first line to its return without another handler in    *)
(* between; invocations interleave between arrival, handling and delivery. *)
(***************************************************************************)
Req(tool) == [NoRequest EXCEPT !.tool = tool]

Floats(seq) == PyList([i \in 1..Len(seq) |-> PyFloat(seq[i])])

\* the invocations the callers make
ConcurrentRequests ==
    {[Req("sum") EXCEPT !.numbers = numbers] :
        numbers \in {Floats(<<>>), Floats(<<Fin(1, 2, 1), Fin(-1, 1, 1)>>),
                     PyList(<<PyFloat(Fin(1, 2, 1)), PyStr("a")>>)}}
    \cup {[Req("stddev") EXCEPT !.numbers = numbers] :
        numbers \in {Floats(<<>>), Floats(<<Fin(1, 2, 1), Fin(1, 0, 1)>>)}}
    \cup {[Req("constant") EXCEPT !.name = name] :
        name \in {"PI", "pi", "speed_of_light", "SPEED_OF_LIGHT", "NOT_A_CONSTANT"}}
    \cup {[Req("elementwise") EXCEPT !.list_a = Floats(<<Fin(1, 2, 1), Fin(-1, 1, 1)>>),
                                     !.list_b = list_b, !.operator = operator] :
        list_b \in {Floats(<<Fin(1, 0, 1), Fin(1, 2, 1)>>), Floats(<<Fin(1, 2, 1)>>)},
        operator \in {"add", "divide", "invalid_op"}}
    \cup {Req("elementwise_operators"), Req("results_explanation")}

\* the handler of the request's tool, run on the tables as they are
Dispatch(t, req) ==
    IF req.tool = "sum" THEN mcpnp_sum(req.numbers)
    ELSE IF req.tool = "stddev" THEN mcpnp_stddev(req.numbers)
    ELSE IF req.tool = "constant" THEN mcpnp_constant_in(t.constants, req.name)
    ELSE IF req.tool = "elementwise"
    THEN mcpnp_elementwise_op(req.list_a, req.list_b, req.operator).resp
    ELSE IF req.tool = "elementwise_operators" THEN mcpnp_list_operators
    ELSE mcpnp_results_explanation

\* a handler that stores the name it was asked for in the constant table
TablesAfterCall_stores_name(t, req) ==
    IF req.tool = "constant" /\ req.name \notin DOMAIN t.constants
    THEN [t EXCEPT !.constants = (req.name :> "None") @@ t.constants]
    ELSE t

\* no handler assigns to MCPNP_CONSTANT_VALUES or to McpNpOperator
TablesAfterCall(t, req) == t

Accept(c) ==
    /\ calls[c].phase = "idle"
    /\ \E req \in ConcurrentRequests :
          calls' = [calls EXCEPT ![c] = [phase |-> "called", request |-> req,
                                         response |-> NoResponse]]
    /\ UNCHANGED <<phase, request, response, locals, tables>>

Serve(c) ==
    /\ calls[c].phase = "called"
    /\ calls' = [calls EXCEPT ![c].phase = "returned",
                              ![c].response = Dispatch(tables, calls[c].request)]
    /\ tables' = TablesAfterCall(tables, calls[c].request)
    /\ UNCHANGED <<phase, request, response, locals>>

Return(c) ==
    /\ calls[c].phase = "returned"
    /\ calls' = [calls EXCEPT ![c] = IdleCall]
    /\ UNCHANGED <<phase, request, response, locals, tables>>

ConcurrentNext ==
    \/ \E c \in Clients : Accept(c)
    \/ \E c \in Clients : Serve(c)
    \/ \E c \in Clients : Return(c)

Concurrent == Init /\ [][ConcurrentNext]_vars

(***************************************************************************)
(* Vocabulary of the properties.                                           *)
(***************************************************************************)
Done(tool) == phase = "returned" /\ request.tool = tool

GotEnvelope == response.raised = ""

Status == response.envelope["status"]

Result == response.envelope["result"]

Message == response.envelope["message"]

\* a finite real number, as opposed to NaN or a string
IsReal(e) == e.ty = "float" /\ e.f.k = "fin"

\* a Python float, NaN included
IsFloat(e) == e.ty = "float"

NumericSequence(arg) ==
    arg.shape = "list" /\ \A i \in 1..Len(arg.items) : IsReal(arg.items[i])

A == request.list_a.items

B == request.list_b.items

EqualLengthNumeric ==
    /\ NumericSequence(request.list_a)
    /\ NumericSequence(request.list_b)
    /\ Len(A) = Len(B)

\* exact arithmetic on the signed numerator and the denominator of a real
Num(x) == x.sg * x.n

IsQuotientOf(q, a, b) == Num(q) * Num(b) * a.d = Num(a) * q.d * b.d

IsSumOf(r, a, b) == Num(r) * a.d * b.d = (Num(a) * b.d + Num(b) * a.d) * r.d

IsDifferenceOf(r, a, b) == Num(r) * a.d * b.d = (Num(a) * b.d - Num(b) * a.d) * r.d

IsProductOf(r, a, b) == Num(r) * a.d * b.d = Num(a) * Num(b) * r.d

IsSentinel(e) == e.ty = "str" /\ e.s = "nan"

ZeroDivisors == {i \in 1..Len(B) : B[i].f.n = 0}

(***************************************************************************)
(* C1: for equal-length numeric sequences A, B and operator "divide", the  *)
(* output carries all len(A) positions; every position i with B[i] = 0 is  *)
(* the NaN sentinel and the status is then error; every other position j   *)
(* holds the quotient A[j] / B[j]; the envelope's result is that list.     *)
(***************************************************************************)
C1_DividePartialResult ==
    (Done("elementwise") /\ request.operator = "divide" /\ EqualLengthNumeric)
    => /\ GotEnvelope
       /\ Len(locals.result_list) = Len(A)
       /\ Result = PyListStr(locals.result_list)
       /\ \A i \in 1..Len(A) :
             IF i \in ZeroDivisors
             THEN IsSentinel(locals.result_list[i]) /\ Status = "error"
             ELSE /\ IsReal(locals.result_list[i])
                  /\ IsQuotientOf(locals.result_list[i].f, A[i].f, B[i].f)

\* a division with a zero divisor at one index and a quotient at another
C1_Witness ==
    /\ Done("elementwise") /\ request.operator = "divide" /\ EqualLengthNumeric
    /\ \E i, j \in 1..Len(A) :
          /\ i \in ZeroDivisors /\ j \notin ZeroDivisors
          /\ IsSentinel(locals.result_list[i])
          /\ IsReal(locals.result_list[j]) /\ Num(locals.result_list[j].f) # 0
    /\ Status = "error"

(***************************************************************************)
(* C2: for every numeric sequence of length 0 or 1, stddev returns status  *)
(* error and the NaN sentinel "nan" as its result.                         *)
(***************************************************************************)
C2_StddevUndefined ==
    (Done("stddev") /\ NumericSequence(request.numbers) /\ Len(request.numbers.items) <= 1)
    => /\ GotEnvelope
       /\ Status = "error"
       /\ Result = "nan"

(***************************************************************************)
(* C3: for each of the eight constant names as documented (upper case),    *)
(* constant(name) returns status ok and a result encoding the object with  *)
(* that name and that constant's value.                                    *)
(***************************************************************************)
DocumentedValue(name) ==
    IF name = "PI" THEN "np.pi"
    ELSE IF name = "E" THEN "np.e"
    ELSE IF name = "SPEED_OF_LIGHT" THEN "sc.speed_of_light"
    ELSE IF name = "PLANCK" THEN "sc.Planck"
    ELSE IF name = "ELEMENTARY_CHARGE" THEN "sc.elementary_charge"
    ELSE IF name = "GRAVITATIONAL_CONSTANT" THEN "sc.gravitational_constant"
    ELSE IF name = "ELECTRON_MASS" THEN "sc.electron_mass"
    ELSE "sc.proton_mass"

C3_DocumentedNamesResolve ==
    (Done("constant") /\ request.name \in DocumentedNames)
    => /\ GotEnvelope
       /\ Status = "ok"
       /\ Result = "{\n  \"name\": \"" \o request.name \o "\",\n  \"value\": float("
                   \o DocumentedValue(request.name) \o ")\n}"

(***************************************************************************)
(* C4: for every name that is not exactly (case-sensitively) one of the    *)
(* table's eight keys, constant(name) returns status error and the empty   *)
(* result; no value is returned for it.                                    *)
(***************************************************************************)
TableKeys ==
    {"PI", "E", "speed_of_light", "planck", "elementary_charge",
     "gravitational_constant", "electron_mass", "proton_mass"}

C5_AlwaysEnvelope ==
    phase = "returned"
    => /\ response.raised = ""
       /\ DOMAIN response.envelope = {"result", "status", "message"}
       /\ response.envelope["status"] \in {"ok", "error"}

(***************************************************************************)
(* C6: for every two lists of different lengths and every operator string, *)
(* elementwise returns status error and the empty result, whatever the     *)
(* elements are.                                                           *)
(***************************************************************************)
C6_UnequalLengthRejected ==
    (/\ Done("elementwise")
     /\ request.list_a.shape = "list" /\ request.list_b.shape = "list"
     /\ Len(A) # Len(B))
    => /\ GotEnvelope
       /\ Status = "error"
       /\ Result = ""

\* numeric lists of different lengths and a supported operator, rejected
C6_Witness ==
    /\ Done("elementwise")
    /\ NumericSequence(request.list_a) /\ NumericSequence(request.list_b)
    /\ Len(A) = 2 /\ Len(B) = 1 /\ request.operator = "add"
    /\ GotEnvelope /\ Status = "error" /\ Result = ""
    /\ Message = "McpNp elementwise_op failed with error: Input lists must be of equal length."

(***************************************************************************)
(* C7: for every elementwise call that passes the preconditions (two lists *)
(* of floats of equal length, a supported operator), the status is ok if   *)
(* and only if no position of the output list is the NaN sentinel and the  *)
(* error flag was not set; otherwise it is error.                          *)
(***************************************************************************)
PassesPreconditions ==
    /\ request.list_a.shape = "list" /\ request.list_b.shape = "list"
    /\ \A i \in 1..Len(A) : IsFloat(A[i])
    /\ \A i \in 1..Len(B) : IsFloat(B[i])
    /\ Len(A) = Len(B)
    /\ request.operator \in {"add", "subtract", "multiply", "divide"}

AnySentinel == \E i \in 1..Len(locals.result_list) : IsSentinel(locals.result_list[i])

C7_StatusIffCleanOutput ==
    (Done("elementwise") /\ PassesPreconditions)
    => /\ GotEnvelope
       /\ locals.computed
       /\ Result = PyListStr(locals.result_list)
       /\ Status = (IF ~AnySentinel /\ ~locals.error_detected THEN "ok" ELSE "error")

\* an output with a NaN sentinel and no error flag: the status is error
C7_Witness ==
    /\ Done("elementwise") /\ PassesPreconditions
    /\ AnySentinel /\ ~locals.error_detected
    /\ GotEnvelope /\ Status = "error"

(***************************************************************************)
(* C8: for every elementwise divide whose divisor list holds one or more   *)
(* zeros, the message of the envelope names the first (lowest) index i     *)
(* with B[i] = 0.                                                          *)
(***************************************************************************)
FirstZeroIndex == (CHOOSE i \in ZeroDivisors : \A j \in ZeroDivisors : i <= j) - 1

C8_MessageNamesFirstZero ==
    (/\ Done("elementwise") /\ request.operator = "divide" /\ EqualLengthNumeric
     /\ ZeroDivisors # {})
    => /\ GotEnvelope
       /\ Message = "McpNp elementwise_op failed: Division by zero at index "
                    \o ToString(FirstZeroIndex) \o ". "

(***************************************************************************)
(* C9: for equal-length numeric sequences A, B (the empty ones included)   *)
(* and an operator among add, subtract, multiply, elementwise returns      *)
(* status ok and a list of len(A) numbers with result[i] = op(A[i], B[i])  *)
(* at every index.                                                         *)
(***************************************************************************)
C9_ArithmeticOperators ==
    (/\ Done("elementwise") /\ EqualLengthNumeric
     /\ request.operator \in {"add", "subtract", "multiply"})
    => /\ GotEnvelope
       /\ Status = "ok"
       /\ Len(locals.result_list) = Len(A)
       /\ Result = PyListStr(locals.result_list)
       /\ \A i \in 1..Len(A) :
             /\ IsReal(locals.result_list[i])
             /\ LET r == locals.result_list[i].f
                IN  IF request.operator = "add" THEN IsSumOf(r, A[i].f, B[i].f)
                    ELSE IF request.operator = "subtract" THEN IsDifferenceOf(r, A[i].f, B[i].f)
                    ELSE IsProductOf(r, A[i].f, B[i].f)

\* a subtraction of two different numbers at some index, answered ok
C9_Witness ==
    /\ Done("elementwise") /\ EqualLengthNumeric /\ request.operator = "subtract"
    /\ \E i \in 1..Len(A) : Num(A[i].f) * B[i].f.d # Num(B[i].f) * A[i].f.d
    /\ GotEnvelope /\ Status = "ok"

(***************************************************************************)
(* C10: for every numeric sequence S, sum(S) returns status ok and the     *)
(* arithmetic sum of its elements as the result; for the empty sequence    *)
(* the result is exactly 0.0 with status ok.                               *)
(***************************************************************************)
\* the exact sum of the elements, as <<numerator, denominator>>
RECURSIVE ExactSum(_)
ExactSum(items) ==
    IF items = <<>> THEN <<0, 1>>
    ELSE LET rest == ExactSum(Tail(items))
         IN  <<Num(items[1].f) * rest[2] + rest[1] * items[1].f.d, items[1].f.d * rest[2]>>

Decimal(q) == FloatStr(Fin(IF q[1] < 0 THEN -1 ELSE 1, Abs(q[1]), q[2]))

C10_SumOfSequence ==
    (Done("sum") /\ NumericSequence(request.numbers))
    => /\ GotEnvelope
       /\ Status = "ok"
       /\ Result = Decimal(ExactSum(request.numbers.items))
       /\ (request.numbers.items = <<>> => Result = "0.0")

\* the empty sequence has been summed to 0.0 with status ok
C10_Witness ==
    /\ Done("sum") /\ request.numbers = PyList(<<>>)
    /\ GotEnvelope /\ Status = "ok" /\ Result = "0.0"

(***************************************************************************)
(* C11: for every sequence with at least one non-numeric element (a string *)
(* that is no number), at any position, sum returns status error and the   *)
(* empty result: the element is not skipped and no sum of the others is    *)
(* returned.                                                               *)
(***************************************************************************)
\* the strings of the model that read as a number
NumberLiterals == {"2"}

IsNonNumeric(e) == e.ty = "str" /\ e.s \notin NumberLiterals

HasNonNumeric(arg) == \E i \in 1..Len(arg.items) : IsNonNumeric(arg.items[i])

C11_SumRejectsNonNumeric ==
    (Done("sum") /\ request.numbers.shape = "list" /\ HasNonNumeric(request.numbers))
    => /\ GotEnvelope
       /\ Status = "error"
       /\ Result = ""

\* a number followed by a non-numeric element: rejected, the number is not returned
C11_Witness ==
    /\ Done("sum") /\ request.numbers.shape = "list"
    /\ Len(request.numbers.items) = 2
    /\ IsReal(request.numbers.items[1]) /\ Num(request.numbers.items[1].f) # 0
    /\ IsNonNumeric(request.numbers.items[2])
    /\ GotEnvelope /\ Status = "error" /\ Result = ""

(***************************************************************************)
(* C12: for every elementwise call on two lists that violates a            *)
(* precondition (a non-numeric element in either list, unequal lengths, an *)
(* operator that is none of add, subtract, multiply, divide), the status   *)
(* is error, the result is empty (no partial list), and the message names  *)
(* a precondition that the call violates.                                  *)
(***************************************************************************)
BothLists == request.list_a.shape = "list" /\ request.list_b.shape = "list"

SupportedOperators == {"add", "subtract", "multiply", "divide"}

AnyNonNumeric == HasNonNumeric(request.list_a) \/ HasNonNumeric(request.list_b)

UnequalLength == Len(A) # Len(B)

UnsupportedOperator == request.operator \notin SupportedOperators

FailurePrefix == "McpNp elementwise_op failed with error: "

\* the message reports an element that is no number, and the call has it
ReportsNonNumeric ==
    \E arg \in {request.list_a, request.list_b} : \E i \in 1..Len(arg.items) :
        /\ IsNonNumeric(arg.items[i])
        /\ Message = FailurePrefix \o "could not convert string to float: '"
                     \o arg.items[i].s \o "'"

ReportsUnequalLength == Message = FailurePrefix \o "Input lists must be of equal length."

ReportsOperator ==
    Message = FailurePrefix \o "'" \o request.operator \o "' is not a valid McpNpOperator"

C12_PreconditionFailureReported ==
    (/\ Done("elementwise") /\ BothLists
     /\ (AnyNonNumeric \/ UnequalLength \/ UnsupportedOperator))
    => /\ GotEnvelope
       /\ Status = "error"
       /\ Result = ""
       /\ locals.result_list = <<>>
       /\ \/ AnyNonNumeric /\ ReportsNonNumeric
          \/ UnequalLength /\ ReportsUnequalLength
          \/ UnsupportedOperator /\ ReportsOperator

\* numeric lists of equal length and an unknown operator: the operator is reported
C12_Witness ==
    /\ Done("elementwise") /\ BothLists
    /\ ~AnyNonNumeric /\ ~UnequalLength /\ UnsupportedOperator /\ Len(A) = 2
    /\ GotEnvelope /\ Status = "error" /\ Result = ""
    /\ ReportsOperator

(***************************************************************************)
(* C14: when an elementwise call on two lists violates several             *)
(* preconditions, a non-numeric element is reported before unequal length, *)
(* and unequal length before an unsupported operator; an unsupported       *)
(* operator is reported only when both lists are numeric and of equal      *)
(* length.                                                                 *)
(***************************************************************************)
C14_FailurePriority ==
    (Done("elementwise") /\ BothLists /\ GotEnvelope)
    => /\ AnyNonNumeric => ReportsNonNumeric
       /\ (~AnyNonNumeric /\ UnequalLength) => ReportsUnequalLength
       /\ (~AnyNonNumeric /\ ~UnequalLength /\ UnsupportedOperator) => ReportsOperator
       /\ ReportsOperator => (~AnyNonNumeric /\ ~UnequalLength)

\* all three preconditions violated at once: the non-numeric element is reported
C14_Witness ==
    /\ Done("elementwise") /\ BothLists
    /\ AnyNonNumeric /\ UnequalLength /\ UnsupportedOperator
    /\ GotEnvelope /\ ReportsNonNumeric
    /\ ~ReportsUnequalLength /\ ~ReportsOperator

(***************************************************************************)
(* C15: in every envelope of every tool, status ok implies a result that   *)
(* is not the empty string, so the empty result comes only with status     *)
(* error; elementwise on two empty lists with a supported operator returns *)
(* the encoded empty list "[]" with status ok.                             *)
(***************************************************************************)
C15_OkResultNotEmpty ==
    (phase = "returned" /\ GotEnvelope)
    => /\ Status = "ok" => Result # ""
       /\ Result = "" => Status = "error"
       /\ (/\ request.tool = "elementwise"
           /\ request.list_a = PyList(<<>>) /\ request.list_b = PyList(<<>>)
           /\ request.operator \in SupportedOperators)
          => (Status = "ok" /\ Result = "[]")

\* two empty lists have been multiplied: "[]" with status ok
C15_Witness ==
    /\ Done("elementwise")
    /\ request.list_a = PyList(<<>>) /\ request.list_b = PyList(<<>>)
    /\ request.operator = "multiply"
    /\ GotEnvelope /\ Status = "ok" /\ Result = "[]"

(***************************************************************************)
(* C13: under every interleaving of concurrent invocations, the envelope   *)
(* of each invocation is the envelope its tool returns for the same        *)
(* arguments when it runs alone, and the constant table and the operator   *)
(* table are what they were at start after every invocation.               *)
(***************************************************************************)
\* the invocation run alone, in a process that has served nothing else
Alone(req) == Dispatch(InitialTables, req)

====
